---- MODULE Spec2Model ----
(***************************************************************************)
(* Model of simpleperf/rust/lib.rs: the safe wrappers profcollect uses to  *)
(* drive the simpleperf ETM engine (probes, Record, Inject, log file).     *)
(*                                                                         *)
(* Strings and paths are sequences of byte values.  A call of a wrapper is *)
(* two steps: the wrapper builds its C strings and enters the native       *)
(* function (pc = "native"), then the native function returns, the locals  *)
(* are dropped and the wrapper returns (pc = "done").  A failed unwrap()   *)
(* ends the call in pc = "panicked" before any native function is entered. *)
(***************************************************************************)
EXTENDS Integers, Sequences, FiniteSets, TLC

\* ------------------------------------------------------------------ bounds
\* longest path / filter string drawn as an input
MaxLen == 2

\* --------------------------------------------------------- bytes, strings
\* the terminator CString::new appends and rejects inside its argument
NUL == 0

\* byte values inputs are built from: NUL, 'a', and the two bytes of the
\* UTF-8 encoding of U+00E9 (0xC3 0xA9); 0xC3 or 0xA9 alone is not UTF-8
Bytes == {0, 97, 169, 195}

ByteStrings == UNION {[1..k -> Bytes] : k \in 0..MaxLen}

\* Option / Result values: <<>> is None / Err, <<x>> is Some(x) / Ok(x)
None == <<>>

Some(x) == <<x>>

IsCont(b) == b >= 128 /\ b <= 191

\* length of the UTF-8 sequence a lead byte announces, 0 for a byte that
\* cannot start a sequence
Utf8Width(b) ==
  IF b < 128 THEN 1
  ELSE IF b >= 194 /\ b <= 223 THEN 2
  ELSE IF b >= 224 /\ b <= 239 THEN 3
  ELSE IF b >= 240 /\ b <= 244 THEN 4
  ELSE 0

RECURSIVE Utf8From(_, _)
Utf8From(s, i) ==
  IF i > Len(s) THEN TRUE
  ELSE LET w == Utf8Width(s[i]) IN
       /\ w > 0
       /\ i + w - 1 <= Len(s)
       /\ \A j \in (i + 1)..(i + w - 1) : IsCont(s[j])
       /\ (s[i] = 224 => s[i + 1] >= 160)
       /\ (s[i] = 237 => s[i + 1] <= 159)
       /\ (s[i] = 240 => s[i + 1] >= 144)
       /\ (s[i] = 244 => s[i + 1] <= 143)
       /\ Utf8From(s, i + w)

IsUtf8(s) == Utf8From(s, 1)

HasNul(s) == \E i \in 1..Len(s) : s[i] = NUL

\* to_str as to_string_lossy: bytes that are not UTF-8 become U+FFFD
to_str_lossy(path) == IF IsUtf8(path) THEN Some(path) ELSE Some(<<239, 191, 189>>)

\* Path::to_str: the same bytes when they are UTF-8, None otherwise
to_str(path) == IF IsUtf8(path) THEN Some(path) ELSE None

\* CString::new as from_vec_unchecked: no check for an interior NUL
CString_new_unchecked(bytes) == Some(Append(bytes, NUL))

\* CString::new: Err on an interior NUL, else the bytes plus one terminator
CString_new(bytes) == IF HasNul(bytes) THEN None ELSE Some(Append(bytes, NUL))

\* path_to_cstr: None stands for the panic of either unwrap()
path_to_cstr(path) ==
  LET s == to_str(path) IN
  IF s = None THEN None ELSE CString_new(s[1])

\* what a C function reads through a char pointer: the bytes before the
\* first NUL of the buffer
RECURSIVE CStrFrom(_, _)
CStrFrom(buf, i) ==
  IF i > Len(buf) \/ buf[i] = NUL THEN <<>>
  ELSE <<buf[i]>> \o CStrFrom(buf, i + 1)

CStr(buf) == CStrFrom(buf, 1)

\* ------------------------------------------------------------ event names
\* "cs-etm:u"
CS_ETM_U == <<99, 115, 45, 101, 116, 109, 58, 117>>

\* "cs-etm:k"
CS_ETM_K == <<99, 115, 45, 101, 116, 109, 58, 107>>

\* "cs-etm"
CS_ETM == <<99, 115, 45, 101, 116, 109>>

RecordScope == {"USERSPACE", "KERNEL", "BOTH"}

\* the match with the USERSPACE and KERNEL arms exchanged
EventName_swapped(scope) ==
  CASE scope = "USERSPACE" -> CS_ETM_K
    [] scope = "KERNEL" -> CS_ETM_U
    [] scope = "BOTH" -> CS_ETM

EventName(scope) ==
  CASE scope = "USERSPACE" -> CS_ETM_U
    [] scope = "KERNEL" -> CS_ETM_K
    [] scope = "BOTH" -> CS_ETM

\* ------------------------------------------------- 32-bit floating point
\* A non-negative f32 is the pair <<m, e>> with value m * 2^e, normalised:
\* 2^23 <= m < 2^24, or m = 0 and e = 0.
F32(m, e) == <<m, e>>

Mant(x) == x[1]

Expo(x) == x[2]

RECURSIVE Pow2(_)
Pow2(n) == IF n = 0 THEN 1 ELSE 2 * Pow2(n - 1)

RECURSIVE BitLen(_)
BitLen(n) == IF n = 0 THEN 0 ELSE 1 + BitLen(n \div 2)

F32Zero == F32(0, 0)

\* round n * 2^e (plus, when sticky, a nonzero amount below one unit of n)
\* to the nearest f32, ties to even
RoundF32(n, e, sticky) ==
  IF n = 0 THEN F32Zero
  ELSE LET len == BitLen(n) IN
       IF len <= 24
       THEN F32(n * Pow2(24 - len), e - (24 - len))
       ELSE LET k == len - 24
                q == n \div Pow2(k)
                r == n % Pow2(k)
                half == Pow2(k - 1)
                up == r > half \/ (r = half /\ (sticky \/ q % 2 = 1))
                m1 == IF up THEN q + 1 ELSE q
            IN IF m1 = Pow2(24)
               THEN F32(Pow2(23), e + k + 1)
               ELSE F32(m1, e + k)

\* integer as f32
IntToF32(n) == RoundF32(n, 0, FALSE)

NANOS_PER_SEC == 1000000000

\* binary long division of v by NANOS_PER_SEC for 0 < v < NANOS_PER_SEC:
\* acc holds the quotient bits produced so far, k how many, r the remainder
RECURSIVE DivBits(_, _, _)
DivBits(r, acc, k) ==
  IF acc >= Pow2(25) THEN RoundF32(acc, 0 - k, r # 0)
  ELSE IF 2 * r >= NANOS_PER_SEC
       THEN DivBits(2 * r - NANOS_PER_SEC, 2 * acc + 1, k + 1)
       ELSE DivBits(2 * r, 2 * acc, k + 1)

\* x / (NANOS_PER_SEC as f32) for an f32 x holding an integer <= 10^9
DivByNanosPerSec(x) ==
  LET v == IF Expo(x) >= 0 THEN Mant(x) * Pow2(Expo(x))
           ELSE Mant(x) \div Pow2(0 - Expo(x)) IN
  IF v = 0 THEN F32Zero
  ELSE IF v = NANOS_PER_SEC THEN IntToF32(1)
  ELSE DivBits(v, 0, 0)

\* f32 addition with three guard bits and a sticky bit
AddF32(a, b) ==
  IF Mant(a) = 0 THEN b
  ELSE IF Mant(b) = 0 THEN a
  ELSE LET hi == IF Expo(a) >= Expo(b) THEN a ELSE b
           lo == IF Expo(a) >= Expo(b) THEN b ELSE a
           d == Expo(hi) - Expo(lo)
           lfull == Mant(lo) * 8
           l == IF d >= 27 THEN 0 ELSE lfull \div Pow2(d)
           sticky == IF d >= 27 THEN TRUE ELSE lfull % Pow2(d) # 0
       IN RoundF32(Mant(hi) * 8 + l, Expo(hi) - 3, sticky)

\* a Duration is the pair <<secs, nanos>>
Duration(secs, nanos) == <<secs, nanos>>

Secs(d) == d[1]

Nanos(d) == d[2]

\* as_secs() as f32: the whole seconds only
as_secs_whole(d) == IntToF32(Secs(d))

\* Duration::as_secs_f32: (secs as f32) + (nanos as f32) / (NANOS_PER_SEC as f32)
as_secs_f32(d) ==
  AddF32(IntToF32(Secs(d)), DivByNanosPerSec(IntToF32(Nanos(d))))

\* ------------------------------------------------------------------ inputs
\* paths are arbitrary byte strings (OsStr); a &str is always valid UTF-8
Paths == ByteStrings

Filters == {s \in ByteStrings : IsUtf8(s)}

\* 2.5 s, 5 s, 1 ns, and 1.999999999 s (whose nanos round up to 10^9)
Durations ==
  { Duration(2, 500000000), Duration(5, 0), Duration(0, 1),
    Duration(1, 999999999) }

\* ------------------------------------------------------------------- state
VARIABLES
  pc,        \* "idle", "native" (inside the native function), "done", "panicked"
  op,        \* the wrapper call in progress and its arguments
  buffers,   \* the CStrings the call owns, by handle
  native,    \* the native calls this wrapper call has made
  ret,       \* what the wrapper returned: <<>> for (), <<b>> for a bool
  logDests,  \* the engine's active log file destinations
  logAtCall, \* logDests when the call in progress started
  lastLog,   \* the last set_log_file / reset_log_file call that returned
  driver,    \* the system has the ETM driver
  device     \* the system has the ETM device

vars == <<pc, op, buffers, native, ret, logDests, logAtCall, lastLog, driver, device>>

NoDuration == Duration(0, 0)

\* a wrapper call: its name, its Path arguments in order, None or
\* Some(binary_filter), its duration and its scope
Call(name, paths, filter, duration, scope) ==
  <<name, paths, filter, duration, scope>>

OpName(c) == c[1]

OpPaths(c) == c[2]

OpFilter(c) == c[3]

OpDuration(c) == c[4]

OpScope(c) == c[5]

NoCall == Call("none", <<>>, None, NoDuration, "BOTH")

\* a native call: the function, its pointer arguments, its float argument
\* and, once it returned, its result
NativeCall(fn, args, dur) == <<fn, args, dur, <<>>>>

Fn(c) == c[1]

Args(c) == c[2]

Dur(c) == c[3]

Result(c) == c[4]

Init ==
  /\ pc = "idle"
  /\ op = NoCall
  /\ buffers = <<>>
  /\ native = <<>>
  /\ ret = <<>>
  /\ logDests = {}
  /\ logAtCall = {}
  /\ lastLog = <<"none", <<>>>>
  /\ driver \in BOOLEAN
  /\ device \in BOOLEAN

\* --------------------------------------------------------------- wrappers
\* the first CString as a temporary (CString::new(..).unwrap().as_ptr()),
\* freed at the end of its statement
OwnedDuringCall_temporary(cstrs) == [i \in 2..Len(cstrs) |-> cstrs[i][1]]

\* the locals holding the CStrings stay bound until the function's end, so
\* every buffer built is owned while the native function runs
OwnedDuringCall(cstrs) == [i \in 1..Len(cstrs) |-> cstrs[i][1]]

\* Enter with the native function called a second time
Enter_twice(call, cstrs, fn, dur) ==
  /\ pc = "idle"
  /\ op' = call
  /\ logAtCall' = logDests
  /\ ret' = <<>>
  /\ IF \E i \in 1..Len(cstrs) : cstrs[i] = None
     THEN /\ pc' = "panicked"
          /\ buffers' = <<>>
          /\ native' = <<>>
     ELSE /\ pc' = "native"
          /\ buffers' = [i \in 1..Len(cstrs) |-> cstrs[i][1]]
          /\ native' = <<<<fn, [i \in 1..Len(cstrs) |-> i], dur, <<>>>>,
                         <<fn, [i \in 1..Len(cstrs) |-> i], dur, <<>>>>>>
  /\ UNCHANGED <<logDests, lastLog, driver, device>>

\* A wrapper with its CString results in the order the code builds them:
\* a None is an unwrap() that panics, unwinding before the unsafe block;
\* otherwise the native function fn is entered with pointers to the buffers.
Enter(call, cstrs, fn, dur) ==
  /\ pc = "idle"
  /\ op' = call
  /\ logAtCall' = logDests
  /\ ret' = <<>>
  /\ IF \E i \in 1..Len(cstrs) : cstrs[i] = None
     THEN /\ pc' = "panicked"
          /\ buffers' = <<>>
          /\ native' = <<>>
     ELSE /\ pc' = "native"
          /\ buffers' = OwnedDuringCall(cstrs)
          /\ native' = <<NativeCall(fn, [i \in 1..Len(cstrs) |-> i], dur)>>
  /\ UNCHANGED <<logDests, lastLog, driver, device>>

has_driver_support ==
  Enter(Call("has_driver_support", <<>>, None, NoDuration, "BOTH"),
        <<>>, "HasDriverSupport", F32Zero)

\* has_device_support calling the driver probe
has_device_support_driver ==
  /\ pc = "idle"
  /\ op' = <<"has_device_support", <<>>, <<>>, <<0, 0>>, "BOTH">>
  /\ logAtCall' = logDests
  /\ ret' = <<>>
  /\ pc' = "native"
  /\ buffers' = <<>>
  /\ native' = <<<<"HasDriverSupport", <<>>, <<0, 0>>, <<>>>>>>
  /\ UNCHANGED <<logDests, lastLog, driver, device>>

has_device_support ==
  Enter(Call("has_device_support", <<>>, None, NoDuration, "BOTH"),
        <<>>, "HasDeviceSupport", F32Zero)

record(trace_file, duration, binary_filter, scope) ==
  LET event_name == CString_new(EventName(scope))
      trace_file_c == path_to_cstr(trace_file)
      duration_f == as_secs_f32(duration)
      binary_filter_c == CString_new(binary_filter)
  IN Enter(Call("record", <<trace_file>>, Some(binary_filter), duration, scope),
           <<event_name, trace_file_c, binary_filter_c>>, "Record", duration_f)

\* process passing the profile path first and the trace path second
process_swapped(trace_path, profile_path, binary_filter) ==
  /\ pc = "idle"
  /\ op' = <<"process", <<trace_path, profile_path>>, <<binary_filter>>,
             <<0, 0>>, "BOTH">>
  /\ logAtCall' = logDests
  /\ ret' = <<>>
  /\ IF \/ ~IsUtf8(trace_path) \/ HasNul(trace_path)
        \/ ~IsUtf8(profile_path) \/ HasNul(profile_path)
        \/ HasNul(binary_filter)
     THEN /\ pc' = "panicked"
          /\ buffers' = <<>>
          /\ native' = <<>>
     ELSE /\ pc' = "native"
          /\ buffers' = <<Append(profile_path, 0), Append(trace_path, 0),
                          Append(binary_filter, 0)>>
          /\ native' = <<<<"Inject", <<1, 2, 3>>, <<0, 0>>, <<>>>>>>
  /\ UNCHANGED <<logDests, lastLog, driver, device>>

process(trace_path, profile_path, binary_filter) ==
  LET trace_path_c == path_to_cstr(trace_path)
      profile_path_c == path_to_cstr(profile_path)
      binary_filter_c == CString_new(binary_filter)
  IN Enter(Call("process", <<trace_path, profile_path>>, Some(binary_filter),
                NoDuration, "BOTH"),
           <<trace_path_c, profile_path_c, binary_filter_c>>, "Inject", F32Zero)

\* set_log_file calling ResetLogFile
set_log_file_reset(filename) ==
  /\ pc = "idle"
  /\ op' = <<"set_log_file", <<filename>>, <<>>, <<0, 0>>, "BOTH">>
  /\ logAtCall' = logDests
  /\ ret' = <<>>
  /\ IF ~IsUtf8(filename) \/ HasNul(filename)
     THEN /\ pc' = "panicked"
          /\ buffers' = <<>>
          /\ native' = <<>>
     ELSE /\ pc' = "native"
          /\ buffers' = <<Append(filename, 0)>>
          /\ native' = <<<<"ResetLogFile", <<1>>, <<0, 0>>, <<>>>>>>
  /\ UNCHANGED <<logDests, lastLog, driver, device>>

set_log_file(filename) ==
  LET log_file == path_to_cstr(filename)
  IN Enter(Call("set_log_file", <<filename>>, None, NoDuration, "BOTH"),
           <<log_file>>, "SetLogFile", F32Zero)

\* reset_log_file written as set_log_file of the empty path
reset_log_file_empty ==
  /\ pc = "idle"
  /\ op' = <<"reset_log_file", <<>>, <<>>, <<0, 0>>, "BOTH">>
  /\ logAtCall' = logDests
  /\ ret' = <<>>
  /\ pc' = "native"
  /\ buffers' = <<<<0>>>>
  /\ native' = <<<<"SetLogFile", <<1>>, <<0, 0>>, <<>>>>>>
  /\ UNCHANGED <<logDests, lastLog, driver, device>>

reset_log_file ==
  Enter(Call("reset_log_file", <<>>, None, NoDuration, "BOTH"),
        <<>>, "ResetLogFile", F32Zero)

\* ---------------------------------------------------------- native engine
\* the C string behind a pointer argument; a pointer to a freed buffer is
\* undefined behaviour and may read any bytes
PointsTo(ptr) ==
  IF ptr \in DOMAIN buffers THEN {CStr(buffers[ptr])} ELSE ByteStrings

\* the log destinations after the engine ran one call
NativeLogEffect(dests, call) ==
  CASE Fn(call) = "SetLogFile" -> {CHOOSE s \in PointsTo(Args(call)[1]) : TRUE}
    [] Fn(call) = "ResetLogFile" -> {}
    [] OTHER -> dests

RECURSIVE NativeLogEffects(_, _, _)
NativeLogEffects(dests, calls, i) ==
  IF i > Len(calls) THEN dests
  ELSE NativeLogEffects(NativeLogEffect(dests, calls[i]), calls, i + 1)

\* what the engine's function returns
NativeResult(call) ==
  CASE Fn(call) = "HasDriverSupport" -> <<driver>>
    [] Fn(call) = "HasDeviceSupport" -> <<device>>
    [] OTHER -> <<>>

\* the wrapper's return value: that of its (last) native call
WrapperResult(calls) == Result(calls[Len(calls)])

\* the native function returns; the wrapper drops its locals and returns
Return ==
  /\ pc = "native"
  /\ pc' = "done"
  /\ native' = [i \in 1..Len(native) |->
                  [native[i] EXCEPT ![4] = NativeResult(native[i])]]
  /\ ret' = WrapperResult(native')
  /\ logDests' = NativeLogEffects(logDests, native, 1)
  /\ buffers' = <<>>
  /\ lastLog' = CASE OpName(op) = "set_log_file" -> <<"set", OpPaths(op)[1]>>
                  [] OpName(op) = "reset_log_file" -> <<"reset", <<>>>>
                  [] OTHER -> lastLog
  /\ UNCHANGED <<op, logAtCall, driver, device>>

\* the caller goes on after the wrapper returned
Continue ==
  /\ pc = "done"
  /\ pc' = "idle"
  /\ op' = NoCall
  /\ native' = <<>>
  /\ ret' = <<>>
  /\ logAtCall' = logDests
  /\ UNCHANGED <<buffers, logDests, lastLog, driver, device>>

\* the panic unwound to a caller that goes on (it may also end the process)
Unwound ==
  /\ pc = "panicked"
  /\ pc' = "idle"
  /\ op' = NoCall
  /\ UNCHANGED <<buffers, native, ret, logDests, logAtCall, lastLog, driver, device>>

\* the ETM device becomes available some time after boot
DeviceAppears ==
  /\ ~device
  /\ device' = TRUE
  /\ UNCHANGED <<pc, op, buffers, native, ret, logDests, logAtCall, lastLog, driver>>

\* a wrapper is called only by a caller that is not inside another call
Next ==
  \/ has_driver_support
  \/ has_device_support
  \/ /\ pc = "idle"
     /\ \E trace_file \in Paths, duration \in Durations,
           binary_filter \in Filters, scope \in RecordScope :
          record(trace_file, duration, binary_filter, scope)
  \/ /\ pc = "idle"
     /\ \E trace_path \in Paths, profile_path \in Paths,
           binary_filter \in Filters :
          process(trace_path, profile_path, binary_filter)
  \/ /\ pc = "idle"
     /\ \E filename \in Paths : set_log_file(filename)
  \/ reset_log_file
  \/ Return
  \/ Continue
  \/ Unwound
  \/ DeviceAppears

Spec == Init /\ [][Next]_vars

\* ------------------------------------------------------------ properties
\* the string and path arguments of a wrapper call
PathArgs(c) == {OpPaths(c)[i] : i \in 1..Len(OpPaths(c))}

StrArgs(c) == PathArgs(c) \cup {OpFilter(c)[i] : i \in 1..Len(OpFilter(c))}

InCall == pc \in {"native", "done"}

\* C1: record passes to Record exactly the event name of its scope:
\* USERSPACE "cs-etm:u", KERNEL "cs-etm:k", BOTH "cs-etm"; the three names
\* differ, and no Record call ever carries another event name.
C1_EventName ==
  /\ CS_ETM_U # CS_ETM_K /\ CS_ETM_U # CS_ETM /\ CS_ETM_K # CS_ETM
  /\ (pc = "native" =>
        \A i \in 1..Len(native) :
          Fn(native[i]) = "Record" =>
            /\ OpName(op) = "record"
            /\ Len(Args(native[i])) = 3
            /\ PointsTo(Args(native[i])[1]) =
                 {CASE OpScope(op) = "USERSPACE" ->
                         <<99, 115, 45, 101, 116, 109, 58, 117>>
                    [] OpScope(op) = "KERNEL" ->
                         <<99, 115, 45, 101, 116, 109, 58, 107>>
                    [] OpScope(op) = "BOTH" ->
                         <<99, 115, 45, 101, 116, 109>>})
  /\ (pc = "native" /\ OpName(op) = "record" =>
        Len(native) = 1 /\ Fn(native[1]) = "Record")

C1_Witness ==
  /\ pc = "native"
  /\ OpName(op) = "record"
  /\ OpScope(op) = "KERNEL"
  /\ PointsTo(Args(native[1])[1]) = {CS_ETM_K}

\* C2: a call of record, process or set_log_file with a NUL byte in any
\* string or path argument panics before the native function is entered:
\* it makes no native call at all.
C2_NulAborts ==
  (pc # "idle" /\ \E a \in StrArgs(op) : HasNul(a)) =>
     pc = "panicked" /\ native = <<>>

C2_Witness ==
  /\ pc = "panicked"
  /\ OpName(op) = "process"
  /\ \A a \in PathArgs(op) : IsUtf8(a) /\ ~HasNul(a) /\ Len(a) > 0
  /\ OpFilter(op) = Some(<<97, 0>>)
  /\ native = <<>>

\* C3: for NUL-free inputs, each string argument of Record (event name,
\* trace path, filter) and of Inject (trace path, profile path, filter) is
\* in its own position the input's bytes followed by one terminator, and
\* the engine reads back exactly the input; an empty filter is the
\* terminator alone.
C3_ArgsVerbatim ==
  pc = "native" =>
    /\ OpName(op) = "record" =>
         /\ Len(native) = 1
         /\ Args(native[1]) = <<1, 2, 3>>
         /\ Len(buffers) = 3
         /\ buffers[1][Len(buffers[1])] = NUL
         /\ ~HasNul(CStr(buffers[1])) /\ Len(buffers[1]) = Len(CStr(buffers[1])) + 1
         /\ buffers[2] = OpPaths(op)[1] \o <<0>>
         /\ buffers[3] = OpFilter(op)[1] \o <<0>>
         /\ PointsTo(2) = {OpPaths(op)[1]}
         /\ PointsTo(3) = {OpFilter(op)[1]}
    /\ OpName(op) = "process" =>
         /\ Len(native) = 1
         /\ Args(native[1]) = <<1, 2, 3>>
         /\ Len(buffers) = 3
         /\ buffers[1] = OpPaths(op)[1] \o <<0>>
         /\ buffers[2] = OpPaths(op)[2] \o <<0>>
         /\ buffers[3] = OpFilter(op)[1] \o <<0>>
         /\ PointsTo(1) = {OpPaths(op)[1]}
         /\ PointsTo(2) = {OpPaths(op)[2]}
         /\ PointsTo(3) = {OpFilter(op)[1]}

C3_Witness ==
  /\ pc = "native"
  /\ OpName(op) = "process"
  /\ OpPaths(op) = <<<<97>>, <<195, 169>>>>
  /\ OpFilter(op) = Some(<<>>)
  /\ buffers = <<<<97, 0>>, <<195, 169, 0>>, <<0>>>>

\* C4: the logging state starts Default and is always the one the last
\* returned set_log_file / reset_log_file call asked for: RedirectedTo(p)
\* after set_log_file(p), Default after reset_log_file or before any call;
\* there is never more than one destination.
C4_LastLogCallDecides ==
  /\ Cardinality(logDests) <= 1
  /\ lastLog[1] = "none" => logDests = {}
  /\ lastLog[1] = "reset" => logDests = {}
  /\ lastLog[1] = "set" => logDests = {lastLog[2]}

C4_Witness ==
  /\ pc = "done"
  /\ OpName(op) = "set_log_file"
  /\ logAtCall = {<<97>>}
  /\ logDests = {<<195, 169>>}
  /\ lastLog = <<"set", <<195, 169>>>>

\* C5: reset_log_file never panics, and called in the Default logging
\* state it returns with the state still Default.
C5_ResetIdempotent ==
  OpName(op) = "reset_log_file" =>
    /\ pc # "panicked"
    /\ (pc = "done" => ret = <<>> /\ logDests = {})
    /\ (logAtCall = {} => logDests = {})

C5_Witness ==
  /\ pc = "done"
  /\ OpName(op) = "reset_log_file"
  /\ logAtCall = {}
  /\ logDests = {}
  /\ lastLog[1] = "reset"

\* C6: a call of record, process or set_log_file with a path that is not
\* valid UTF-8 panics: it makes no native call and returns nothing.
C6_BadPathAborts ==
  (pc # "idle" /\ \E a \in PathArgs(op) : ~IsUtf8(a)) =>
     pc = "panicked" /\ native = <<>> /\ ret = <<>>

C6_Witness ==
  /\ pc = "panicked"
  /\ OpName(op) = "set_log_file"
  /\ OpPaths(op) = <<<<97, 195>>>>
  /\ native = <<>>

\* C7: has_driver_support and has_device_support never panic, call only
\* their own probe, once, return the boolean that probe returned (the
\* driver probe's is whether the driver is there, whatever the device
\* probe says), own no buffer and leave the logging state as it was.
C7_ProbesPure ==
  OpName(op) \in {"has_driver_support", "has_device_support"} =>
    /\ pc # "panicked"
    /\ buffers = <<>>
    /\ logDests = logAtCall
    /\ (InCall =>
          /\ Len(native) = 1
          /\ Args(native[1]) = <<>>
          /\ OpName(op) = "has_driver_support" => Fn(native[1]) = "HasDriverSupport"
          /\ OpName(op) = "has_device_support" => Fn(native[1]) = "HasDeviceSupport")
    /\ (pc = "done" =>
          /\ ret \in {<<TRUE>>, <<FALSE>>}
          /\ ret = Result(native[1])
          /\ OpName(op) = "has_driver_support" => ret = <<driver>>
          /\ (OpName(op) = "has_device_support" /\ ret = <<TRUE>>) => device)

C7_Witness ==
  /\ pc = "done"
  /\ OpName(op) = "has_device_support"
  /\ ret = <<TRUE>>
  /\ ~driver

\* C8: record passes the duration as f32 seconds: 2.5 s crosses as 2.5
\* (10485760 * 2^-22) and 5 s as 5.0 (10485760 * 2^-21).
C8_DurationAsF32 ==
  (pc = "native" /\ OpName(op) = "record") =>
    /\ Len(native) = 1
    /\ OpDuration(op) = <<2, 500000000>> => Dur(native[1]) = <<10485760, -22>>
    /\ OpDuration(op) = <<5, 0>> => Dur(native[1]) = <<10485760, -21>>

C8_Witness ==
  /\ pc = "native"
  /\ OpName(op) = "record"
  /\ OpDuration(op) = <<2, 500000000>>
  /\ Dur(native[1]) = <<10485760, -22>>

\* C9: while the native function of record, process or set_log_file runs,
\* one buffer per string argument is owned by the call and every pointer
\* passed refers to a live buffer; outside the native function no buffer
\* is left.
C9_BuffersLive ==
  /\ pc = "native" =>
       /\ \A i \in 1..Len(native) :
            \A j \in 1..Len(Args(native[i])) :
              Args(native[i])[j] \in DOMAIN buffers
       /\ OpName(op) = "record" => DOMAIN buffers = 1..3
       /\ OpName(op) = "process" => DOMAIN buffers = 1..3
       /\ OpName(op) = "set_log_file" => DOMAIN buffers = 1..1
  /\ pc # "native" => buffers = <<>>

C9_Witness ==
  /\ pc = "native"
  /\ OpName(op) = "set_log_file"
  /\ Args(native[1]) = <<1>>
  /\ buffers = <<<<195, 169, 0>>>>

\* C10: a wrapper call that passes its preconditions makes exactly one
\* native call, of its own function; record and process return with the
\* logging state as it was, and so does a call that panics.
C10_OneNativeCall ==
  /\ InCall =>
       /\ Len(native) = 1
       /\ Fn(native[1]) =
            (CASE OpName(op) = "has_driver_support" -> "HasDriverSupport"
               [] OpName(op) = "has_device_support" -> "HasDeviceSupport"
               [] OpName(op) = "record" -> "Record"
               [] OpName(op) = "process" -> "Inject"
               [] OpName(op) = "set_log_file" -> "SetLogFile"
               [] OpName(op) = "reset_log_file" -> "ResetLogFile")
  /\ pc = "panicked" => native = <<>> /\ logDests = logAtCall
  /\ (pc # "idle" /\ OpName(op) \in {"record", "process"}) => logDests = logAtCall

C10_Witness ==
  /\ pc = "panicked"
  /\ OpName(op) = "set_log_file"
  /\ logAtCall = {<<97>>}
  /\ logDests = {<<97>>}

====
